---- MODULE Spec2Model ----
(***************************************************************************)
(* State-machine model of src/bot.py: the fan-out copy of one channel post *)
(* to every active channel (forward_message), the per-channel copier with  *)
(* its retry loop (copy_message_to_channel), the channel registry kept in  *)
(* SQLite, the process-wide stats and the admin commands.                  *)
(*                                                                         *)
(* Scheduling: the Application is built without concurrent_updates, so one *)
(* update handler runs to completion before the next update is taken; the  *)
(* only concurrency is between the copier tasks of one asyncio.gather.     *)
(* Configuration values are the documented ones (BATCH_SIZE a positive     *)
(* integer, ADMIN_ID unset or a numeric id) except in ConfigSpec, which    *)
(* starts from any integer BATCH_SIZE the environment can hold.            *)
(***************************************************************************)
EXTENDS Integers, Sequences, FiniteSets, TLC

\* ------------------------------------------------------------------ bounds
\* channel ids the registry of the default specification can hold
NumChannels == 3
\* largest BATCH_SIZE the configuration and /setbatch draw from in the model
MaxBatch == 2
\* channel posts received per behaviour
MaxRuns == 2
\* largest retry_after a rate-limit signal carries
MaxWait == 1
\* channel ids of the alert specification (10 makes 3 of 10 = 30% reachable)
AlertChannels == 10
\* updates waiting in the update queue
MaxQueue == 1
\* restarts of the polling loop in one behaviour
MaxRestarts == 1

\* --------------------------------------------------------------- constants
\* copy_message_to_channel(..., retries=5)
Retries == 5
\* /setbatch accepts 1..50
SetBatchMin == 1
SetBatchMax == 50
\* asyncio.sleep(2) after TimedOut, asyncio.sleep(1) after a transient error
TimeoutSleep == 2
ErrorSleep == 1
\* asyncio.sleep(1.0) between batches
BatchDelay == 1

Channels == 1..AlertChannels
None == "None"

\* ---------------------------------------------------------- pure helpers
Min(a, b) == IF a < b THEN a ELSE b

\* the elements of a set of integers in ascending order (ORDER BY channel_id)
RECURSIVE SortedSeq(_)
SortedSeq(S) ==
    IF S = {} THEN <<>>
    ELSE LET m == CHOOSE x \in S : \A y \in S : x <= y
         IN  <<m>> \o SortedSeq(S \ {m})

\* Python's s[lo:hi] for 0 <= lo (0-based, hi exclusive, clamped to len(s))
Slice(s, lo, hi) ==
    LET h == Min(hi, Len(s))
    IN  IF lo >= h THEN <<>> ELSE SubSeq(s, lo + 1, h)

RECURSIVE Concat(_)
Concat(ss) ==
    IF ss = <<>> THEN <<>> ELSE Head(ss) \o Concat(Tail(ss))

Range(s) == {s[k] : k \in DOMAIN s}

\* ceil(n / b) for n >= 0, b >= 1
CeilDiv(n, b) == (n + b - 1) \div b

\* --------------------------------------------------- error message texts
UpperCase == <<"A","B","C","D","E","F","G","H","I","J","K","L","M","N","O","P","Q","R","S","T","U","V","W","X","Y","Z">>
LowerCase == <<"a","b","c","d","e","f","g","h","i","j","k","l","m","n","o","p","q","r","s","t","u","v","w","x","y","z">>

\* str.lower() on one character and on a text
LowerChar(ch) ==
    IF \E k \in DOMAIN UpperCase : UpperCase[k] = ch
    THEN LowerCase[CHOOSE k \in DOMAIN UpperCase : UpperCase[k] = ch]
    ELSE ch

lower(text) == [k \in DOMAIN text |-> LowerChar(text[k])]

\* Python's `needle in text` on strings
Contains(text, needle) ==
    \E k \in 0..(Len(text) - Len(needle)) :
        \A j \in 1..Len(needle) : text[k + j] = needle[j]

\* the list of line 280
PermanentPhrases ==
    { <<"c","h","a","t"," ","n","o","t"," ","f","o","u","n","d">>,
      <<"b","o","t"," ","w","a","s"," ","k","i","c","k","e","d">>,
      <<"n","o","t"," ","a"," ","m","e","m","b","e","r">>,
      <<"h","a","v","e"," ","n","o"," ","r","i","g","h","t","s">> }

\* any(err in error_msg for err in [...]) with error_msg = str(e).lower()
\* (the same test with the .lower() of line 279 left out)
IsPermanentNoLower(text) ==
    \E p \in PermanentPhrases : Contains(text, p)
IsPermanent(text) ==
    \E p \in PermanentPhrases : Contains(lower(text), p)

\* texts a TelegramError of the platform carries
TextChatNotFound == <<"C","h","a","t"," ","n","o","t"," ","f","o","u","n","d">>
TextKicked == <<"F","o","r","b","i","d","d","e","n",":"," ","b","o","t"," ","w","a","s"," ","k","i","c","k","e","d"," ","f","r","o","m"," ","t","h","e"," ","c","h","a","n","n","e","l"," ","c","h","a","t">>
TextNotMember == <<"F","o","r","b","i","d","d","e","n",":"," ","b","o","t"," ","i","s"," ","n","o","t"," ","a"," ","m","e","m","b","e","r"," ","o","f"," ","t","h","e"," ","c","h","a","n","n","e","l"," ","c","h","a","t">>
TextNoRights == <<"B","a","d"," ","R","e","q","u","e","s","t",":"," ","h","a","v","e"," ","n","o"," ","r","i","g","h","t","s"," ","t","o"," ","s","e","n","d"," ","a"," ","m","e","s","s","a","g","e">>
TextNotEnoughRights == <<"N","o","t"," ","e","n","o","u","g","h"," ","r","i","g","h","t","s"," ","t","o"," ","s","e","n","d"," ","t","e","x","t"," ","m","e","s","s","a","g","e","s"," ","t","o"," ","t","h","e"," ","c","h","a","t">>
TextBadGateway == <<"B","a","d"," ","G","a","t","e","w","a","y">>

\* ------------------------------------------------ transport signal values
\* What one awaited bot.send_* call can do (lines 168-262 and the except
\* clauses of lines 271-288): return, or raise RetryAfter (retry_after is an
\* int, or a timedelta on library builds that report durations), TimedOut,
\* another TelegramError carrying a text, or any other exception. db_ok says
\* whether update_channel_stats (line 267) commits or raises sqlite3.Error.
Signal(class, retry_after, is_int, text, db_ok) ==
    [class |-> class, retry_after |-> retry_after, is_int |-> is_int,
     text |-> text, db_ok |-> db_ok]

NoSignal == Signal("none", 0, TRUE, <<>>, TRUE)
SentOk == Signal("ok", 0, TRUE, <<>>, TRUE)
SentDbError == Signal("ok", 0, TRUE, <<>>, FALSE)
RetryAfter(w) == Signal("RetryAfter", w, TRUE, <<>>, TRUE)
RetryAfterTimedelta == Signal("RetryAfter", 1, FALSE, <<>>, TRUE)
TimedOut == Signal("TimedOut", 0, TRUE, <<>>, TRUE)
TelegramError(text) == Signal("TelegramError", 0, TRUE, text, TRUE)
OtherException == Signal("Exception", 0, TRUE, <<>>, TRUE)

PermanentTexts == {TextChatNotFound, TextKicked, TextNotMember, TextNoRights}
TransientTexts == {TextNotEnoughRights, TextBadGateway}

\* every signal of the model
AllSignals ==
    {SentOk, SentDbError, RetryAfterTimedelta, TimedOut, OtherException}
    \cup {RetryAfter(w) : w \in 1..MaxWait}
    \cup {TelegramError(t) : t \in PermanentTexts \cup TransientTexts}

\* the signals of the run specification: every way a copy can end, one
\* retryable error and the rate limit
RunSignals ==
    {SentOk, RetryAfterTimedelta}
    \cup {RetryAfter(w) : w \in 1..MaxWait}
    \cup {TelegramError(TextChatNotFound), TelegramError(TextBadGateway)}

\* the signals of the default specification: a copy is delivered, is sent
\* but not recorded, or fails for good
ProgramSignals == {SentOk, SentDbError, TelegramError(TextChatNotFound)}

\* the signals of the alert specification: a copy succeeds or fails for good
AlertSignals == {SentOk, TelegramError(TextChatNotFound)}

\* ------------------------------------------------------------- messages
\* A message is the set of its populated content fields; post = FALSE is an
\* update without channel_post (line 299).
\* (the chain written from contact up to text)
CopierOrderReversed ==
    <<"contact", "location", "poll", "animation", "sticker", "video_note",
      "voice", "audio", "document", "video", "photo", "text">>

CopierOrder ==
    <<"text", "photo", "video", "document", "audio", "voice", "video_note",
      "sticker", "animation", "poll", "location", "contact">>

Fields == Range(CopierOrder)

Message(post, fields) == [post |-> post, fields |-> fields]
NoPost == Message(FALSE, {})

\* (the chain ending in an else that sends the message as text)
SendOperationDefaultText(m) ==
    IF \E k \in DOMAIN CopierOrder : CopierOrder[k] \in m.fields
    THEN CopierOrder[CHOOSE k \in DOMAIN CopierOrder :
                        /\ CopierOrder[k] \in m.fields
                        /\ \A j \in 1..(k - 1) : CopierOrder[j] \notin m.fields]
    ELSE "text"

\* the if/elif chain of lines 168-265: the send operation of an attempt
SendOperation(m) ==
    IF \E k \in DOMAIN CopierOrder : CopierOrder[k] \in m.fields
    THEN CopierOrder[CHOOSE k \in DOMAIN CopierOrder :
                        /\ CopierOrder[k] \in m.fields
                        /\ \A j \in 1..(k - 1) : CopierOrder[j] \notin m.fields]
    ELSE "unsupported"

\* lines 310-326: the label of the run
LabelOrder ==
    <<"photo", "video", "document", "audio", "voice", "sticker", "poll",
      "animation">>

MsgType(m) ==
    IF \E k \in DOMAIN LabelOrder : LabelOrder[k] \in m.fields
    THEN LabelOrder[CHOOSE k \in DOMAIN LabelOrder :
                        /\ LabelOrder[k] \in m.fields
                        /\ \A j \in 1..(k - 1) : LabelOrder[j] \notin m.fields]
    ELSE "text"

\* the messages of the default specification
RunMessages == {Message(TRUE, {"text"}), Message(TRUE, {}), NoPost}
\* the messages of the alert specification
AlertMessages == {Message(TRUE, {"text"})}

\* ------------------------------------------------------------------ state
VARIABLES
    BATCH_SIZE,       \* module global, line 28 / setbatch_command
    ADMIN_ID,         \* module global, line 27
    TARGET_CHANNELS,  \* module global, line 44 / reload_channels
    stats,            \* module global, lines 34-41
    db,               \* the channels table of channels.db
    clock,            \* datetime.now(): the number of updates received
    pc,               \* where forward_message is suspended
    message,          \* update.channel_post of the run
    msg_type,         \* label of the run
    successful,       \* local counter of forward_message
    failed,           \* local counter of forward_message
    i,                \* loop variable of line 340
    rng,              \* the range object of line 340
    batch,            \* the slice of line 341
    co,               \* the copier task of each channel of the gather
    dispatched,       \* history: the batches of the run, in dispatch order
    outcome,          \* history: what gather returned for each channel
    alerts,           \* history: alert sends started by the run
    alertResult,      \* history: how the alert send ended
    paces,            \* history: the inter-batch sleeps of the run, in seconds
    ended,            \* history: how the last handler call ended
    snapshot,         \* history: TARGET_CHANNELS as reloaded at run start
    dbBefore,         \* history: the channels table when the handler was called
    update_queue      \* Application.update_queue: updates fetched, not yet handled

vars ==
    <<BATCH_SIZE, ADMIN_ID, TARGET_CHANNELS, stats, db, clock, pc, message,
      msg_type, successful, failed, i, rng, batch, co, dispatched, outcome,
      alerts, alertResult, paces, ended, snapshot, dbBefore, update_queue>>

\* last_forward / last_forward_time before the first write
Never == 0

\* a row of the channels table (lines 54-61); exists = FALSE: no such row
NoRow == [exists |-> FALSE, active |-> FALSE, total_forwards |-> 0, last_forward |-> Never]
NewRow == [exists |-> TRUE, active |-> TRUE, total_forwards |-> 0, last_forward |-> Never]

\* a copier coroutine: pc "send" (about to await the send of this attempt),
\* "sleep" (in asyncio.sleep(sleepFor)), "done" (returned or raised)
NoTask ==
    [pc |-> "none", attempt |-> 0, sends |-> 0, sleepFor |-> 0,
     sig |-> NoSignal, result |-> None, ops |-> {}, oks |-> 0]
NewTask == [NoTask EXCEPT !.pc = "send"]

\* ---------------------------------------------------- database functions
\* load_channels_from_db
load_channels_from_db(d) ==
    SortedSeq({c \in Channels : d[c].exists /\ d[c].active})

\* add_channel_to_db: INSERT, or on IntegrityError reactivate the row
add_channel_to_db(d, c) ==
    IF d[c].exists THEN [d EXCEPT ![c].active = TRUE]
    ELSE [d EXCEPT ![c] = NewRow]

\* remove_channel_from_db: UPDATE ... SET active = 0; rowcount > 0
remove_channel_from_db(d, c) ==
    [deleted |-> d[c].exists,
     db |-> IF d[c].exists THEN [d EXCEPT ![c].active = FALSE] ELSE d]

\* (the UPDATE without its WHERE clause)
update_channel_stats_all_rows(d, c, now) ==
    [x \in Channels |->
        IF d[x].exists
        THEN [d[x] EXCEPT !.total_forwards = @ + 1, !.last_forward = now]
        ELSE d[x]]

\* update_channel_stats: one UPDATE statement, run without an await
update_channel_stats(d, c, now) ==
    IF d[c].exists
    THEN [d EXCEPT ![c].total_forwards = @ + 1, ![c].last_forward = now]
    ELSE d

\* ------------------------------------------------ copy_message_to_channel
\* (one iteration too many: range(retries + 1))
next_attempt_extra(c) ==
    IF c.attempt + 1 < Retries + 1
    THEN [c EXCEPT !.pc = "send", !.attempt = @ + 1, !.sleepFor = 0,
                   !.sig = NoSignal]
    ELSE [c EXCEPT !.pc = "done", !.result = "False", !.sleepFor = 0,
                   !.sig = NoSignal]

\* the head of `for attempt in range(retries)` after an iteration fell
\* through (the exception variable e is unbound on leaving the handler), and
\* lines 290-291 when the range is used up
next_attempt(c) ==
    IF c.attempt + 1 < Retries
    THEN [c EXCEPT !.pc = "send", !.attempt = @ + 1, !.sleepFor = 0,
                   !.sig = NoSignal]
    ELSE [c EXCEPT !.pc = "done", !.result = "False", !.sleepFor = 0,
                   !.sig = NoSignal]

return(c, value) == [c EXCEPT !.pc = "done", !.result = value]
sleep(c, seconds) == [c EXCEPT !.pc = "sleep", !.sleepFor = seconds]

\* (the wait without the extra second: asyncio.sleep(e.retry_after))
on_retry_after_exact(c, s) ==
    IF s.is_int THEN sleep(c, s.retry_after) ELSE return(c, "raised")

\* except RetryAfter (lines 271-274); retry_after + 1 raises TypeError when
\* retry_after is no number, and nothing catches it inside the coroutine
on_retry_after(c, s) ==
    IF s.is_int THEN sleep(c, s.retry_after + 1) ELSE return(c, "raised")

\* (the timeout handled with the wait of a transport error)
on_timed_out_short(c) == sleep(c, ErrorSleep)

\* except TimedOut (lines 275-277)
on_timed_out(c) == sleep(c, TimeoutSleep)

\* except TelegramError (lines 278-285)
on_telegram_error(c, s) ==
    IF IsPermanent(s.text) THEN return(c, "False")
    ELSE IF c.attempt < Retries - 1 THEN sleep(c, ErrorSleep)
    ELSE next_attempt(c)

\* (an unexpected exception handled like a transient TelegramError)
copy_attempt_retry_unknown(c, m, s) ==
    IF SendOperation(m) = "unsupported" THEN return(c, "False")
    ELSE LET c1 == [c EXCEPT !.sends = @ + 1, !.sig = s,
                             !.ops = @ \cup {SendOperation(m)},
                             !.oks = IF s.class = "ok" THEN @ + 1 ELSE @]
         IN  CASE s.class = "ok" ->
                    IF s.db_ok THEN return(c1, "True") ELSE return(c1, "False")
               [] s.class = "RetryAfter" -> on_retry_after(c1, s)
               [] s.class = "TimedOut" -> on_timed_out(c1)
               [] s.class = "TelegramError" -> on_telegram_error(c1, s)
               [] OTHER -> IF c1.attempt < Retries - 1 THEN sleep(c1, ErrorSleep)
                           ELSE next_attempt(c1)

\* (an error of update_channel_stats handled by going to the next attempt)
copy_attempt_retry_unrecorded(c, m, s) ==
    IF SendOperation(m) = "unsupported" THEN return(c, "False")
    ELSE LET c1 == [c EXCEPT !.sends = @ + 1, !.sig = s,
                             !.ops = @ \cup {SendOperation(m)},
                             !.oks = IF s.class = "ok" THEN @ + 1 ELSE @]
         IN  CASE s.class = "ok" ->
                    IF s.db_ok THEN return(c1, "True") ELSE next_attempt(c1)
               [] s.class = "RetryAfter" -> on_retry_after(c1, s)
               [] s.class = "TimedOut" -> on_timed_out(c1)
               [] s.class = "TelegramError" -> on_telegram_error(c1, s)
               [] OTHER -> return(c1, "False")

\* one iteration of the loop body up to its first suspension or return
copy_attempt(c, m, s) ==
    IF SendOperation(m) = "unsupported" THEN return(c, "False")
    ELSE LET c1 == [c EXCEPT !.sends = @ + 1, !.sig = s,
                             !.ops = @ \cup {SendOperation(m)},
                             !.oks = IF s.class = "ok" THEN @ + 1 ELSE @]
         IN  CASE s.class = "ok" ->
                    IF s.db_ok THEN return(c1, "True") ELSE return(c1, "False")
               [] s.class = "RetryAfter" -> on_retry_after(c1, s)
               [] s.class = "TimedOut" -> on_timed_out(c1)
               [] s.class = "TelegramError" -> on_telegram_error(c1, s)
               [] OTHER -> return(c1, "False")

\* whether the iteration reaches update_channel_stats and it commits
records_delivery(m, s) ==
    SendOperation(m) # "unsupported" /\ s.class = "ok" /\ s.db_ok

\* -------------------------------------------------------- forward_message
\* the state forward_message reads and writes, as one value
Cur ==
    [pc |-> pc, message |-> message, msg_type |-> msg_type,
     successful |-> successful, failed |-> failed, i |-> i, rng |-> rng,
     batch |-> batch, co |-> co, dispatched |-> dispatched,
     outcome |-> outcome, alerts |-> alerts, alertResult |-> alertResult,
     paces |-> paces, ended |-> ended, snapshot |-> snapshot,
     dbBefore |-> dbBefore, stats |-> stats]

Set(r) ==
    /\ pc' = r.pc
    /\ message' = r.message
    /\ msg_type' = r.msg_type
    /\ successful' = r.successful
    /\ failed' = r.failed
    /\ i' = r.i
    /\ rng' = r.rng
    /\ batch' = r.batch
    /\ co' = r.co
    /\ dispatched' = r.dispatched
    /\ outcome' = r.outcome
    /\ alerts' = r.alerts
    /\ alertResult' = r.alertResult
    /\ paces' = r.paces
    /\ ended' = r.ended
    /\ snapshot' = r.snapshot
    /\ dbBefore' = r.dbBefore
    /\ stats' = r.stats

\* range(0, stop, step) still yields idx
in_range(idx, r) ==
    IF r.step > 0 THEN idx < r.stop ELSE idx > r.stop

\* (the threshold included: failure_rate >= 0.3)
failure_rate_at_least(f, n) == 10 * f >= 3 * n

\* failed / len(TARGET_CHANNELS) > 0.3 (line 386). The quotient of two small
\* integers is the double nearest to the exact ratio and 0.3 is the double
\* nearest to 3/10, so the comparison is that of the exact ratios.
failure_rate_high(f, n) == 10 * f > 3 * n

\* (the slice taken one element too far: chans[idx : idx + bsize + 1])
dispatch_inclusive(r, idx, chans, bsize) ==
    LET b == Slice(chans, idx, idx + bsize + 1)
    IN  [r EXCEPT !.pc = "join", !.i = idx, !.batch = b,
                  !.co = [c \in Channels |->
                             IF c \in Range(b) THEN NewTask ELSE @[c]],
                  !.dispatched = Append(@, b)]

\* (the copies counted in stats as they are dispatched)
dispatch_counting(r, idx, chans, bsize) ==
    LET b == Slice(chans, idx, idx + bsize)
    IN  [r EXCEPT !.pc = "join", !.i = idx, !.batch = b,
                  !.co = [c \in Channels |->
                             IF c \in Range(b) THEN NewTask ELSE @[c]],
                  !.dispatched = Append(@, b),
                  !.stats = [@ EXCEPT !.total_forwards = @ + Len(b)]]

\* lines 341-348: slice the batch, create its tasks, suspend in gather
dispatch(r, idx, chans, bsize) ==
    LET b == Slice(chans, idx, idx + bsize)
    IN  [r EXCEPT !.pc = "join", !.i = idx, !.batch = b,
                  !.co = [c \in Channels |->
                             IF c \in Range(b) THEN NewTask ELSE @[c]],
                  !.dispatched = Append(@, b)]

\* lines 362-400 up to the await of the alert send, or to the return
finish(r, chans, admin, now) ==
    LET st == [r.stats EXCEPT
                  !.total_forwards = @ + Len(chans),
                  !.successful_forwards = @ + r.successful,
                  !.failed_forwards = @ + r.failed,
                  !.last_forward_time = now,
                  !.messages_processed = @ + 1]
        r1 == [r EXCEPT !.stats = st]
    IN  IF admin # None /\ Len(chans) > 0
           /\ failure_rate_high(r.failed, Len(chans))
        THEN [r1 EXCEPT !.pc = "alert", !.alerts = @ + 1]
        ELSE [r1 EXCEPT !.pc = "idle", !.ended = "completed"]

\* the head of the for loop of line 340 with the next index
loop_next(r, idx, chans, bsize, admin, now) ==
    IF in_range(idx, r.rng) THEN dispatch(r, idx, chans, bsize)
    ELSE finish(r, chans, admin, now)

\* (return_exceptions left at its default: the first exception of a task
\* is raised to the caller of gather)
gather_propagating(results) ==
    [raised |-> \E k \in DOMAIN results : results[k] = "raised",
     results |-> results]

\* asyncio.gather(*tasks, return_exceptions=True): the results in task order,
\* an exception a task raised being its result
gather(results) == [raised |-> FALSE, results |-> results]

\* lines 350-354
batch_success(results) ==
    Cardinality({k \in DOMAIN results : results[k] = "True"})

\* (the delay of line 360 taken after every batch, the last one included)
join_pace_always(r, chans, bsize, admin, now) ==
    LET g == gather([k \in DOMAIN r.batch |-> r.co[r.batch[k]].result])
        ok == batch_success(g.results)
    IN  [r EXCEPT
            !.successful = @ + ok,
            !.failed = @ + (Len(r.batch) - ok),
            !.outcome = [c \in Channels |->
                            IF c \in Range(r.batch) THEN r.co[c].result
                            ELSE @[c]],
            !.co = [c \in Channels |->
                       IF c \in Range(r.batch) THEN NoTask ELSE @[c]],
            !.pc = "pace",
            !.paces = Append(@, BatchDelay)]

\* lines 348-360 once every task of the batch is done, and what follows
\* without a suspension
join(r, chans, bsize, admin, now) ==
    LET g == gather([k \in DOMAIN r.batch |-> r.co[r.batch[k]].result])
        ok == batch_success(g.results)
        r1 == [r EXCEPT
                 !.successful = @ + ok,
                 !.failed = @ + (Len(r.batch) - ok),
                 !.outcome = [c \in Channels |->
                                 IF c \in Range(r.batch) THEN r.co[c].result
                                 ELSE @[c]],
                 !.co = [c \in Channels |->
                            IF c \in Range(r.batch) THEN NoTask ELSE @[c]]]
    IN  IF g.raised
        THEN [r EXCEPT !.pc = "idle", !.ended = "raised"]
        ELSE IF r.i + bsize < Len(chans)
        THEN [r1 EXCEPT !.pc = "pace", !.paces = Append(@, BatchDelay)]
        ELSE loop_next(r1, r.i + r.rng.step, chans, bsize, admin, now)

\* (the handler without the early return of lines 305-307)
receive_without_empty_return(r, m, table, chans, bsize, admin, now) ==
    LET r0 == [r EXCEPT
                 !.message = m, !.dispatched = <<>>, !.dbBefore = table,
                 !.outcome = [c \in Channels |-> None],
                 !.alerts = 0, !.alertResult = None, !.paces = <<>>,
                 !.ended = "none", !.snapshot = <<>>]
    IN  IF ~m.post THEN [r0 EXCEPT !.ended = "no_post"]
        ELSE IF bsize = 0
        THEN [r0 EXCEPT !.ended = "raised", !.snapshot = chans,
                        !.msg_type = MsgType(m), !.successful = 0, !.failed = 0]
        ELSE loop_next(
                 [r0 EXCEPT !.snapshot = chans, !.msg_type = MsgType(m),
                            !.successful = 0, !.failed = 0,
                            !.rng = [stop |-> Len(chans), step |-> bsize]],
                 0, chans, bsize, admin, now)

\* lines 294-348: the handler from its call to its first suspension or return
receive(r, m, table, chans, bsize, admin, now) ==
    LET r0 == [r EXCEPT
                 !.message = m, !.dispatched = <<>>, !.dbBefore = table,
                 !.outcome = [c \in Channels |-> None],
                 !.alerts = 0, !.alertResult = None, !.paces = <<>>,
                 !.ended = "none", !.snapshot = <<>>]
    IN  IF ~m.post THEN [r0 EXCEPT !.ended = "no_post"]
        ELSE IF Len(chans) = 0
        THEN [r0 EXCEPT !.ended = "no_channels", !.snapshot = chans]
        ELSE IF bsize = 0
        THEN [r0 EXCEPT !.ended = "raised", !.snapshot = chans,
                        !.msg_type = MsgType(m), !.successful = 0, !.failed = 0]
        ELSE loop_next(
                 [r0 EXCEPT !.snapshot = chans, !.msg_type = MsgType(m),
                            !.successful = 0, !.failed = 0,
                            !.rng = [stop |-> Len(chans), step |-> bsize]],
                 0, chans, bsize, admin, now)

\* the locals and the history of forward_message once another handler runs
Cleared(r, table) ==
    [r EXCEPT !.dbBefore = table, !.message = NoPost, !.msg_type = "text", !.successful = 0,
              !.failed = 0, !.i = 0, !.rng = [stop |-> 0, step |-> 1],
              !.batch = <<>>, !.dispatched = <<>>,
              !.outcome = [c \in Channels |-> None], !.alerts = 0,
              !.alertResult = None, !.paces = <<>>, !.ended = "command",
              !.snapshot = <<>>]

\* ---------------------------------------------------------------- actions
\* (updates handled as tasks of their own: concurrent_updates switched on)
HandlerFreeConcurrent == TRUE

\* the update fetcher awaits the handler of one update before it takes the
\* next (the Application of line 806 has no concurrent_updates)
HandlerFree == pc = "idle"

\* forward_message is called with an update
forward_message_called(m) ==
    /\ clock' = clock + 1
    /\ TARGET_CHANNELS' =
           IF m.post THEN load_channels_from_db(db) ELSE TARGET_CHANNELS
    /\ Set(receive(Cur, m, db, TARGET_CHANNELS', BATCH_SIZE, ADMIN_ID, clock'))
    /\ UNCHANGED <<BATCH_SIZE, ADMIN_ID, db>>

\* an update reaches forward_message as it arrives; the transport delivers
\* `updates` updates in the behaviour
Receive(m, updates) ==
    /\ HandlerFree
    /\ update_queue = <<>>
    /\ clock < updates
    /\ forward_message_called(m)
    /\ UNCHANGED update_queue

\* the copier of channel d runs one loop iteration: the send returns or
\* raises s
CopyAttempt(d, s) ==
    /\ pc = "join"
    /\ co[d].pc = "send"
    /\ co' = [co EXCEPT ![d] = copy_attempt(@, message, s)]
    /\ db' = IF records_delivery(message, s)
             THEN update_channel_stats(db, d, clock) ELSE db
    /\ UNCHANGED <<BATCH_SIZE, ADMIN_ID, TARGET_CHANNELS, stats, clock, pc,
                   message, msg_type, successful, failed, i, rng, batch,
                   dispatched, outcome, alerts, alertResult, paces, ended,
                   snapshot, dbBefore, update_queue>>

\* the asyncio.sleep of the copier of channel d returns
WakeUp(d) ==
    /\ pc = "join"
    /\ co[d].pc = "sleep"
    /\ co' = [co EXCEPT ![d] = next_attempt(@)]
    /\ UNCHANGED <<BATCH_SIZE, ADMIN_ID, TARGET_CHANNELS, stats, db, clock,
                   pc, message, msg_type, successful, failed, i, rng, batch,
                   dispatched, outcome, alerts, alertResult, paces, ended,
                   snapshot, dbBefore, update_queue>>

\* (a gather that returns as soon as one task of the batch is done)
JoinFirstDone ==
    /\ pc = "join"
    /\ \E k \in DOMAIN batch : co[batch[k]].pc = "done"
    /\ Set(join(Cur, TARGET_CHANNELS, BATCH_SIZE, ADMIN_ID, clock))
    /\ UNCHANGED <<BATCH_SIZE, ADMIN_ID, TARGET_CHANNELS, db, clock, update_queue>>

\* (a join that returns only once every copy of the batch has succeeded)
JoinWhenAllDelivered ==
    /\ pc = "join"
    /\ \A k \in DOMAIN batch :
          co[batch[k]].pc = "done" /\ co[batch[k]].result = "True"
    /\ Set(join(Cur, TARGET_CHANNELS, BATCH_SIZE, ADMIN_ID, clock))
    /\ UNCHANGED <<BATCH_SIZE, ADMIN_ID, TARGET_CHANNELS, db, clock, update_queue>>

\* every task of the batch is done: gather returns
Join ==
    /\ pc = "join"
    /\ \A k \in DOMAIN batch : co[batch[k]].pc = "done"
    /\ Set(join(Cur, TARGET_CHANNELS, BATCH_SIZE, ADMIN_ID, clock))
    /\ UNCHANGED <<BATCH_SIZE, ADMIN_ID, TARGET_CHANNELS, db, clock, update_queue>>

\* the asyncio.sleep(1.0) of line 360 returns
PaceDone ==
    /\ pc = "pace"
    /\ Set(loop_next(Cur, i + rng.step, TARGET_CHANNELS, BATCH_SIZE,
                     ADMIN_ID, clock))
    /\ UNCHANGED <<BATCH_SIZE, ADMIN_ID, TARGET_CHANNELS, db, clock, update_queue>>

\* (the alert send outside the try: its exception leaves the handler)
AlertSentUncaught(res) ==
    /\ pc = "alert"
    /\ Set([Cur EXCEPT !.pc = "idle", !.alertResult = res,
                       !.ended = IF res = "error" THEN "raised" ELSE "completed"])
    /\ UNCHANGED <<BATCH_SIZE, ADMIN_ID, TARGET_CHANNELS, db, clock, update_queue>>

\* the alert send of line 388 returns ("ok") or raises ("error", caught at
\* line 399)
AlertSent(res) ==
    /\ pc = "alert"
    /\ Set([Cur EXCEPT !.pc = "idle", !.alertResult = res,
                       !.ended = "completed"])
    /\ UNCHANGED <<BATCH_SIZE, ADMIN_ID, TARGET_CHANNELS, db, clock, update_queue>>

\* add_channel_command with a channel id, called by the admin
add_channel_command(c) ==
    /\ ADMIN_ID # None
    /\ db' = add_channel_to_db(db, c)
    /\ TARGET_CHANNELS' = load_channels_from_db(db')
    /\ Set(Cleared(Cur, db'))
    /\ UNCHANGED <<BATCH_SIZE, ADMIN_ID, clock>>

\* remove_channel_command with a channel id, called by the admin
remove_channel_command(c) ==
    /\ ADMIN_ID # None
    /\ LET res == remove_channel_from_db(db, c)
       IN  /\ db' = res.db
           /\ TARGET_CHANNELS' =
                  IF res.deleted THEN load_channels_from_db(db')
                  ELSE TARGET_CHANNELS
    /\ Set(Cleared(Cur, db'))
    /\ UNCHANGED <<BATCH_SIZE, ADMIN_ID, clock>>

\* reload_command, called by the admin
reload_command ==
    /\ ADMIN_ID # None
    /\ TARGET_CHANNELS' = load_channels_from_db(db)
    /\ Set(Cleared(Cur, db))
    /\ UNCHANGED <<BATCH_SIZE, ADMIN_ID, db, clock>>

\* setbatch_command with a number, called by the admin (lines 681-687)
setbatch_command(v) ==
    /\ ADMIN_ID # None
    /\ BATCH_SIZE' = IF v < SetBatchMin \/ v > SetBatchMax THEN BATCH_SIZE ELSE v
    /\ Set(Cleared(Cur, db))
    /\ UNCHANGED <<ADMIN_ID, TARGET_CHANNELS, db, clock>>

\* /addchannel c handled as it arrives
AddChannel(c) ==
    /\ HandlerFree
    /\ update_queue = <<>>
    /\ add_channel_command(c)
    /\ UNCHANGED update_queue

\* /removechannel c handled as it arrives
RemoveChannel(c) ==
    /\ HandlerFree
    /\ update_queue = <<>>
    /\ remove_channel_command(c)
    /\ UNCHANGED update_queue

\* /reload handled as it arrives
Reload ==
    /\ HandlerFree
    /\ update_queue = <<>>
    /\ reload_command
    /\ UNCHANGED update_queue

\* /setbatch v handled as it arrives
SetBatch(v) ==
    /\ HandlerFree
    /\ update_queue = <<>>
    /\ setbatch_command(v)
    /\ UNCHANGED update_queue

\* an update as it waits in the queue; `during` records that a handler was
\* running when it was fetched
Update(kind, arg) == [kind |-> kind, arg |-> arg, during |-> FALSE]

QueuedPosts == Cardinality({k \in DOMAIN update_queue : update_queue[k].kind = "post"})

\* the updater task fetches an update while the Application is busy or idle
\* and puts it on the queue
Arrive(u, updates) ==
    /\ Len(update_queue) < MaxQueue
    /\ u.kind = "post" => clock + QueuedPosts < updates
    /\ update_queue' = Append(update_queue, [u EXCEPT !.during = (pc # "idle")])
    /\ UNCHANGED <<BATCH_SIZE, ADMIN_ID, TARGET_CHANNELS, stats, db, clock, pc,
                   message, msg_type, successful, failed, i, rng, batch, co,
                   dispatched, outcome, alerts, alertResult, paces, ended,
                   snapshot, dbBefore>>

\* the handler that the Application calls for update u
handle(u) ==
    CASE u.kind = "post" -> forward_message_called(u.arg)
      [] u.kind = "addchannel" -> add_channel_command(u.arg)
      [] u.kind = "removechannel" -> remove_channel_command(u.arg)
      [] u.kind = "reload" -> reload_command
      [] OTHER -> setbatch_command(u.arg)

\* (the next handler started while the run sleeps between two batches)
TakeDuringPacing ==
    /\ pc \in {"idle", "pace"}
    /\ update_queue # <<>>
    /\ update_queue' = Tail(update_queue)
    /\ handle(Head(update_queue))

\* (the update fetcher starting the handler of the next update at once)
TakeConcurrent ==
    /\ update_queue # <<>>
    /\ update_queue' = Tail(update_queue)
    /\ handle(Head(update_queue))

\* the update fetcher takes the next update off the queue and awaits its
\* handler
Take ==
    /\ HandlerFree
    /\ update_queue # <<>>
    /\ update_queue' = Tail(update_queue)
    /\ handle(Head(update_queue))

\* run_polling raised while no handler was running and main's loop calls it
\* again (lines 839-872)
Restart ==
    /\ pc = "idle"
    /\ stats.restarts < MaxRestarts
    /\ stats' = [stats EXCEPT !.restarts = @ + 1]
    /\ UNCHANGED <<BATCH_SIZE, ADMIN_ID, TARGET_CHANNELS, db, clock, pc,
                   message, msg_type, successful, failed, i, rng, batch, co,
                   dispatched, outcome, alerts, alertResult, paces, ended,
                   snapshot, dbBefore, update_queue>>

\* ---------------------------------------------------------- specifications
\* the state main() leaves: the table holds the channels of `env` (migrated
\* or kept from an earlier deployment), the globals come from the environment
InitWith(envChannels, batchSizes, admins) ==
    /\ BATCH_SIZE \in batchSizes
    /\ ADMIN_ID \in admins
    /\ \E E \in envChannels :
          /\ db = [c \in Channels |-> IF c \in E THEN NewRow ELSE NoRow]
          /\ TARGET_CHANNELS = SortedSeq(E)
    /\ stats = [total_forwards |-> 0, successful_forwards |-> 0,
                failed_forwards |-> 0, last_forward_time |-> Never,
                messages_processed |-> 0, restarts |-> 0]
    /\ clock = 0
    /\ pc = "idle"
    /\ message = NoPost
    /\ msg_type = "text"
    /\ successful = 0
    /\ failed = 0
    /\ i = 0
    /\ rng = [stop |-> 0, step |-> 1]
    /\ batch = <<>>
    /\ co = [c \in Channels |-> NoTask]
    /\ dispatched = <<>>
    /\ outcome = [c \in Channels |-> None]
    /\ alerts = 0
    /\ alertResult = None
    /\ paces = <<>>
    /\ ended = "none"
    /\ snapshot = <<>>
    /\ dbBefore = db
    /\ update_queue = <<>>

RunChannels == 1..NumChannels
Admin == "12345"

\* one forwarding run over any registry of RunChannels, with retries, rate
\* limits and every way a copy can end
Init == InitWith(SUBSET RunChannels, 1..MaxBatch, {Admin})

Next ==
    \/ \E m \in RunMessages : Receive(m, 1)
    \/ \E d \in RunChannels : \E s \in RunSignals : CopyAttempt(d, s)
    \/ \E d \in RunChannels : WakeUp(d)
    \/ Join
    \/ PaceDone
    \/ \E res \in {"ok", "error"} : AlertSent(res)

Spec == Init /\ [][Next]_vars

FairChannels == {1, 2}

\* a step of the event loop on behalf of the run in flight
LoopStep ==
    \/ \E d \in FairChannels : \E s \in RunSignals : CopyAttempt(d, s)
    \/ \E d \in FairChannels : WakeUp(d)
    \/ Join
    \/ PaceDone
    \/ \E res \in {"ok", "error"} : AlertSent(res)

\* the event loop does not stop while a task is ready: an awaited send
\* returns or raises (the request has its timeouts, lines 797-803), a sleep
\* of finite length ends, a gather whose tasks are done returns
Fairness == WF_vars(LoopStep)

\* one run over a registry of up to two channels, every signal of a run
FairInit == InitWith(SUBSET FairChannels, 1..MaxBatch, {Admin})

FairNext ==
    \/ \E m \in RunMessages : Receive(m, 1)
    \/ LoopStep

FairSpec == FairInit /\ [][FairNext]_vars /\ Fairness

\* one copier on its own: a registry of one channel, every signal
CopierInit == InitWith({{1}}, {1}, {None, Admin})

CopierNext ==
    \/ \E m \in RunMessages : Receive(m, 1)
    \/ \E s \in AllSignals : CopyAttempt(1, s)
    \/ WakeUp(1)
    \/ Join
    \/ \E res \in {"ok", "error"} : AlertSent(res)

CopierSpec == CopierInit /\ [][CopierNext]_vars

\* runs over up to AlertChannels channels, each copy delivered or failed
AlertInit ==
    InitWith({1..n : n \in 0..AlertChannels}, 1..MaxBatch, {None, Admin})

AlertNext ==
    \/ \E m \in AlertMessages : Receive(m, 1)
    \/ \E d \in Channels : \E s \in AlertSignals : CopyAttempt(d, s)
    \/ Join
    \/ PaceDone
    \/ \E res \in {"ok", "error"} : AlertSent(res)

AlertSpec == AlertInit /\ [][AlertNext]_vars

\* the program over a registry of two channels: MaxRuns updates and the
\* admin commands, one handler after the other
ProgramChannels == {1, 2}

ProgramInit == InitWith(SUBSET ProgramChannels, 1..MaxBatch, {Admin})

ProgramNext ==
    \/ \E m \in RunMessages : Receive(m, MaxRuns)
    \/ \E d \in ProgramChannels : \E s \in ProgramSignals : CopyAttempt(d, s)
    \/ Join
    \/ PaceDone
    \/ \E res \in {"ok", "error"} : AlertSent(res)
    \/ \E c \in ProgramChannels : AddChannel(c)
    \/ \E c \in ProgramChannels : RemoveChannel(c)
    \/ Reload
    \/ \E v \in 0..(MaxBatch + 1) : SetBatch(v)
    \/ Restart

ProgramSpec == ProgramInit /\ [][ProgramNext]_vars

\* the program with its update queue: posts and commands arrive at any time,
\* also while a run is in flight, and are handled in their order of arrival
QueueUpdates ==
    {Update("post", Message(TRUE, {"text"})), Update("reload", 0)}
    \cup {Update("setbatch", v) : v \in 1..MaxBatch}
    \cup {Update(k, 2) : k \in {"addchannel", "removechannel"}}

QueueInit == InitWith({{1}, {1, 2}}, 1..MaxBatch, {Admin})

QueueNext ==
    \/ \E u \in QueueUpdates : Arrive(u, MaxRuns)
    \/ Take
    \/ \E d \in ProgramChannels : \E s \in AlertSignals : CopyAttempt(d, s)
    \/ Join
    \/ PaceDone
    \/ \E res \in {"ok", "error"} : AlertSent(res)

QueueSpec == QueueInit /\ [][QueueNext]_vars

\* the program started with any integer BATCH_SIZE in its environment
\* (line 28 converts the variable and applies no range)
EnvBatchSizes == {-1, 0, 1, MaxBatch, SetBatchMax + 1}

ConfigInit == InitWith(SUBSET ProgramChannels, EnvBatchSizes, {Admin})

ConfigNext ==
    \/ \E m \in RunMessages : Receive(m, 1)
    \/ \E d \in ProgramChannels : \E s \in ProgramSignals : CopyAttempt(d, s)
    \/ Join
    \/ PaceDone
    \/ \E res \in {"ok", "error"} : AlertSent(res)
    \/ \E v \in EnvBatchSizes : SetBatch(v)

ConfigSpec == ConfigInit /\ [][ConfigNext]_vars

\* one copier for every message with two content fields and for the message
\* with all of them, with an error that is retried
PriorityMessages ==
    {Message(TRUE, F) : F \in {G \in SUBSET Fields : Cardinality(G) = 2}}
    \cup {Message(TRUE, Fields)}

PrioritySignals == {SentOk, TelegramError(TextBadGateway)}

PriorityInit == InitWith({{1}}, {1}, {Admin})

PriorityNext ==
    \/ \E m \in PriorityMessages : Receive(m, 1)
    \/ \E s \in PrioritySignals : CopyAttempt(1, s)
    \/ WakeUp(1)
    \/ Join
    \/ \E res \in {"ok", "error"} : AlertSent(res)

PrioritySpec == PriorityInit /\ [][PriorityNext]_vars

\* one run over one channel for every message with at most one content field
LabelMessages ==
    {Message(TRUE, {f}) : f \in Fields} \cup {Message(TRUE, {}), NoPost}

LabelInit == InitWith({{1}}, {1}, {None, Admin})

LabelNext ==
    \/ \E m \in LabelMessages : Receive(m, 1)
    \/ \E s \in AlertSignals : CopyAttempt(1, s)
    \/ Join
    \/ \E res \in {"ok", "error"} : AlertSent(res)

LabelSpec == LabelInit /\ [][LabelNext]_vars

\* ================================================================ claims
InFlight == {d \in Channels : co[d].pc \in {"send", "sleep"}}
Terminal == {"True", "False", "raised"}
Delivered(d) == outcome[d] = "True"

\* C1: for a destination list of n >= 0 channels and a batch size b >= 1 a
\* run dispatches exactly ceil(n/b) groups, each of at most b channels, and
\* the groups concatenated in dispatch order are the destination list: while
\* the run is under way they are a prefix of it.
C1_BatchPartition ==
    BATCH_SIZE >= 1 =>
        /\ \A k \in DOMAIN dispatched :
              Len(dispatched[k]) >= 1 /\ Len(dispatched[k]) <= BATCH_SIZE
        /\ Len(Concat(dispatched)) <= Len(snapshot)
        /\ Concat(dispatched) = SubSeq(snapshot, 1, Len(Concat(dispatched)))
        /\ ended \in {"completed", "no_channels"} =>
              /\ Len(dispatched) = CeilDiv(Len(snapshot), BATCH_SIZE)
              /\ Concat(dispatched) = snapshot

\* a completed run of three channels in batches of two: groups of 2 and 1
C1_Witness ==
    /\ ended = "completed"
    /\ Len(snapshot) = 3
    /\ BATCH_SIZE = 2
    /\ Len(dispatched) = 2
    /\ Len(dispatched[2]) = 1

\* C2: no copy of a later group exists before every copy of the groups
\* before it has a terminal outcome, and never more than BATCH_SIZE copies
\* are in flight.
C2_BatchesInSequence ==
    /\ Cardinality(InFlight) <= BATCH_SIZE
    /\ \A d \in Channels :
          co[d].pc # "none" =>
              /\ dispatched # <<>>
              /\ d \in Range(dispatched[Len(dispatched)])
              /\ \A k \in 1..(Len(dispatched) - 1) :
                    \A e \in Range(dispatched[k]) :
                        co[e].pc = "none" /\ outcome[e] \in Terminal

\* the second group is in flight after the first group of two has ended
C2_Witness ==
    /\ Len(dispatched) = 2
    /\ Len(dispatched[1]) = 2
    /\ co[dispatched[2][1]].pc = "sleep"
    /\ \A e \in Range(dispatched[1]) : outcome[e] \in Terminal

\* C3: whatever the copiers of a run return or raise, the handler does not
\* raise, a batch keeps all its tasks until gather returns, and at the end
\* of the run every destination has one terminal outcome, successful is the
\* number of destinations whose copy returned True, failed the number of
\* the others, and the two add up to the number of destinations; if the
\* failing destinations are exactly every Nth one, failed = floor(n/N).
C3_OutcomeAccounting ==
    /\ ended # "raised"
    /\ pc = "join" => \A d \in Range(batch) : co[d].pc # "none"
    /\ ended = "completed" =>
          LET n == Len(snapshot)
              ok == {d \in Range(snapshot) : outcome[d] = "True"}
          IN  /\ \A d \in Range(snapshot) : outcome[d] \in Terminal
              /\ successful = Cardinality(ok)
              /\ failed = Cardinality(Range(snapshot) \ ok)
              /\ successful + failed = n
              /\ \A N \in 1..n :
                    (\A k \in 1..n : (outcome[snapshot[k]] # "True") <=> (k % N = 0))
                        => failed = n \div N

\* a completed run in which one copy was delivered, one failed and one raised
C3_Witness ==
    /\ ended = "completed"
    /\ BATCH_SIZE = 2
    /\ {outcome[d] : d \in Range(snapshot)} = Terminal

\* C4: a copier makes at most Retries = 5 send attempts, a rate-limited one
\* included, and when it runs out of attempts it returns False after exactly
\* 5 sends.
C4_RetryBudget ==
    \A d \in Channels :
        /\ co[d].sends <= Retries
        /\ co[d].pc = "sleep" => co[d].sends = co[d].attempt + 1
        /\ (co[d].pc = "done" /\ co[d].sends > 0 /\ co[d].sig = NoSignal) =>
              co[d].sends = Retries /\ co[d].result = "False"
        /\ ~(co[d].sends = Retries /\ co[d].pc = "send")

\* the copier gave up after five sends
C4_Witness ==
    /\ co[1].pc = "done"
    /\ co[1].result = "False"
    /\ co[1].sends = 5
    /\ co[1].sig = NoSignal

\* the copier of d is in the sleep that follows a rate limit
RateLimitSleep(d) ==
    co[d].pc = "sleep" /\ co[d].sig.class = "RetryAfter"

\* a step leaves the copier of d alone, or is a step of that copier itself
OwnStepOrNone(d) ==
    \/ co'[d] = co[d]
    \/ co[d].pc = "sleep" /\ co'[d] = next_attempt(co[d])

\* C5 as stated: after the sleep of w + 1 seconds that follows a rate limit
\* the copier makes another send attempt.
C5_AlwaysAnotherAttempt ==
    [][\A d \in Channels :
          (RateLimitSleep(d) /\ co'[d] # co[d]) =>
              /\ co[d].sleepFor = co[d].sig.retry_after + 1
              /\ co'[d].pc = "send"]_vars

\* C5 as amended: the sleep that follows a rate limit with wait w is of w + 1
\* seconds; when it ends the copier makes its next send attempt if fewer than
\* 5 were made and returns False after the 5th; while it lasts every other
\* copier of the batch can take its own step (send, or end its own sleep),
\* and no step of another copier touches the sleeping one.
C5_RateLimitWait ==
    /\ [](\A d \in Channels :
            RateLimitSleep(d) =>
                /\ co[d].sleepFor = co[d].sig.retry_after + 1
                /\ \A e \in Range(batch) \ {d} :
                      /\ co[e].pc = "send" => ENABLED CopyAttempt(e, SentOk)
                      /\ co[e].pc = "sleep" => ENABLED WakeUp(e))
    /\ [][\A d \in Channels :
            RateLimitSleep(d) =>
                /\ OwnStepOrNone(d)
                /\ co'[d] # co[d] =>
                      IF co[d].sends < Retries
                      THEN co'[d].pc = "send" /\ co'[d].attempt = co[d].attempt + 1
                      ELSE co'[d].pc = "done" /\ co'[d].result = "False"]_vars

\* a copier in the sleep after its first, rate-limited send, the full wait
\* ahead, while the other copier of the batch has already delivered
C5_Witness ==
    \E d, e \in Range(batch) :
        /\ d # e
        /\ RateLimitSleep(d)
        /\ co[d].sends = 1
        /\ co[d].sleepFor = co[d].sig.retry_after + 1
        /\ co[e].pc = "done"
        /\ co[e].result = "True"

\* the copier of d is done for this run: it only leaves with the gather
DoneIsFinal(d) ==
    co[d].pc = "done" => co'[d] \in {co[d], NoTask}

\* C6: a TelegramError whose text holds a permanent-failure phrase makes the
\* copier return False in the step that receives it, on any attempt; nothing
\* of the copier follows (no sleep, no send).
C6_PermanentFailsAtOnce ==
    [][\A d \in Channels :
          /\ (co[d].pc = "send" /\ co'[d] # co[d]
                /\ co'[d].sig.class = "TelegramError"
                /\ co'[d].sig.text \in PermanentTexts) =>
                  /\ co'[d].pc = "done"
                  /\ co'[d].result = "False"
                  /\ co'[d].sends = co[d].sends + 1
                  /\ co'[d].sleepFor = 0
          /\ DoneIsFinal(d)]_vars

\* the first send got "Chat not found" and the copier has returned False
C6_Witness ==
    /\ co[1].pc = "done"
    /\ co[1].result = "False"
    /\ co[1].attempt = 0
    /\ co[1].sends = 1
    /\ co[1].sig = TelegramError(TextChatNotFound)

\* C7: an exception of the send that is no RetryAfter, TimedOut or
\* TelegramError makes the copier return False in the step that receives it,
\* attempts left or not; nothing of the copier follows.
C7_UnexpectedFailsAtOnce ==
    [][\A d \in Channels :
          /\ (co[d].pc = "send" /\ co'[d] # co[d]
                /\ co'[d].sig.class = "Exception") =>
                  /\ co'[d].pc = "done"
                  /\ co'[d].result = "False"
                  /\ co'[d].sends = co[d].sends + 1
                  /\ co'[d].sleepFor = 0
          /\ co[d].pc = "done" => (co'[d] = co[d] \/ co'[d].pc = "none")]_vars

\* the second send raised an unexpected exception with three attempts left
C7_Witness ==
    /\ co[1].pc = "done"
    /\ co[1].result = "False"
    /\ co[1].attempt = 1
    /\ co[1].sends = 2
    /\ co[1].sig = OtherException

\* the copy to d returned True in the run under way or just ended
ReturnedTrue(d) ==
    outcome[d] = "True" \/ (co[d].pc = "done" /\ co[d].result = "True")

\* C8: against the table as it was when the run began, the row of every
\* channel whose copy returned True has its counter one higher and the time
\* of the run as last_forward, and every other row is as it was: copies that
\* failed, copies still to come and channels outside the run change nothing,
\* however the copies of a batch interleave.
C8_CounterPerDelivery ==
    \A d \in Channels :
        db[d] = IF ReturnedTrue(d)
                THEN [dbBefore[d] EXCEPT
                         !.total_forwards = dbBefore[d].total_forwards + 1,
                         !.last_forward = clock]
                ELSE dbBefore[d]

\* the second run over two channels in one batch: channel 1 delivered again,
\* channel 2 failed as it did in the first run
C8_Witness ==
    /\ ended = "completed"
    /\ clock = 2
    /\ dispatched = << <<1, 2>> >>
    /\ outcome[1] = "True"
    /\ outcome[2] = "False"
    /\ dbBefore[1].total_forwards = 1
    /\ db[1].total_forwards = 2
    /\ db[1].last_forward = 2
    /\ db[2].total_forwards = 0
    /\ db[2].last_forward = Never

\* copies of the run that did not return True
FailedCopies == {d \in Range(snapshot) : outcome[d] # "True"}

\* C9: a run that went through its batches sends one alert when an admin is
\* configured and more than 30% of its copies failed, and none otherwise
\* (3 failures of 10 send none); a run without channels sends none; no run
\* sends a second alert.
C9_AlertThreshold ==
    /\ alerts \in {0, 1}
    /\ ended \in {"no_channels", "no_post"} => alerts = 0
    /\ (pc = "alert" \/ ended = "completed") =>
          (alerts = 1 <=>
              /\ ADMIN_ID # None
              /\ 10 * Cardinality(FailedCopies) > 3 * Len(snapshot))

\* ten channels, exactly three failed copies, an admin, and no alert
C9_Witness ==
    /\ ended = "completed"
    /\ ADMIN_ID # None
    /\ Len(snapshot) = 10
    /\ Cardinality(FailedCopies) = 3
    /\ alerts = 0

\* C10: whether the alert send returned or raised, forward_message returns
\* normally and the process-wide stats are those of the run: its channels,
\* its successes and failures, one message processed.
C10_AlertFailureSwallowed ==
    alertResult \in {"ok", "error"} =>
        /\ pc = "idle"
        /\ ended = "completed"
        /\ stats = [total_forwards |-> Len(snapshot),
                    successful_forwards |-> Len(snapshot) - Cardinality(FailedCopies),
                    failed_forwards |-> Cardinality(FailedCopies),
                    last_forward_time |-> clock,
                    messages_processed |-> 1,
                    restarts |-> 0]

\* the alert of a run with failures raised, and the run completed
C10_Witness ==
    /\ alertResult = "error"
    /\ ended = "completed"
    /\ alerts = 1
    /\ stats.failed_forwards > 0
    /\ stats.messages_processed = 1

\* C11: every pacing delay is of 1 second; one is under way only between a
\* group whose copies have all finished and a next group still to dispatch,
\* so that a run in its k-th group has taken k - 1 delays and a completed
\* run over n >= 1 channels has taken ceil(n/b) - 1, none after its last
\* group.
C11_PacingBetweenBatches ==
    /\ \A k \in DOMAIN paces : paces[k] = 1
    /\ pc = "pace" =>
          /\ Len(paces) = Len(dispatched)
          /\ \A d \in Channels : co[d].pc = "none"
          /\ \A d \in Range(Concat(dispatched)) : outcome[d] \in Terminal
          /\ Len(Concat(dispatched)) < Len(snapshot)
    /\ pc = "join" => Len(paces) = Len(dispatched) - 1
    /\ (ended = "completed" /\ Len(snapshot) >= 1) =>
          Len(paces) = CeilDiv(Len(snapshot), BATCH_SIZE) - 1

\* three channels in batches of two: the run has completed with one delay
C11_Witness ==
    /\ ended = "completed"
    /\ Len(snapshot) = 3
    /\ BATCH_SIZE = 2
    /\ Len(dispatched) = 2
    /\ paces = <<1>>

\* C12: the handler called with a channel post while the table has no active
\* channel returns in that step without an error: no copier task, no batch,
\* no delay, no alert, and the stats and the table are what they were (the
\* run adds nothing to the attempted, successful or failed counters).
C12_EmptyRunIsNoOp ==
    [][(clock' = clock + 1 /\ message'.post
          /\ load_channels_from_db(db) = <<>>) =>
            /\ pc' = "idle"
            /\ ended' = "no_channels"
            /\ \A d \in Channels : co'[d] = NoTask
            /\ dispatched' = <<>>
            /\ paces' = <<>>
            /\ alerts' = 0
            /\ stats' = stats
            /\ db' = db]_vars

\* a post handled after the only run so far had its channels removed: the
\* stats are still those of that first run
C12_Witness ==
    /\ ended = "no_channels"
    /\ clock = 2
    /\ message.post
    /\ TARGET_CHANNELS = <<>>
    /\ stats.messages_processed = 1
    /\ stats.total_forwards >= 1
    /\ stats.last_forward_time = 1

\* C13: a channel post with no recognized content field is skipped by the
\* run: no group is dispatched, no copier task exists, no channel is counted
\* as failed and no alert is sent for it.
C13_UnsupportedSkipped ==
    (message.post /\ SendOperation(message) = "unsupported") =>
        /\ dispatched = <<>>
        /\ \A d \in Channels : co[d].pc = "none"
        /\ failed = 0
        /\ stats.failed_forwards = 0
        /\ alerts = 0

\* C14: for a channel post with at most one content field the label of the
\* run (msg_type) is the kind the copier dispatches on: the field itself for
\* the twelve supported kinds, Unsupported for a post without any.
C14_LabelIsCopierKind ==
    (message.post /\ snapshot # <<>>
        /\ Cardinality(message.fields) <= 1) =>
            msg_type = SendOperation(message)

RunCounters(st) ==
    <<st.total_forwards, st.successful_forwards, st.failed_forwards,
      st.messages_processed>>

\* C15: no step lowers total_forwards, successful_forwards, failed_forwards,
\* messages_processed or restarts; a step that changes one of the first four
\* is the return of the gather of the last batch of a run: every channel of
\* the run has been dispatched and has its outcome, no copier task is left,
\* and the run goes on to its alert or returns. While a batch is in flight
\* or a pacing delay is under way they keep their values.
C15_CountersMonotonic ==
    [][/\ stats'.total_forwards >= stats.total_forwards
       /\ stats'.successful_forwards >= stats.successful_forwards
       /\ stats'.failed_forwards >= stats.failed_forwards
       /\ stats'.messages_processed >= stats.messages_processed
       /\ stats'.restarts >= stats.restarts
       /\ RunCounters(stats') # RunCounters(stats) =>
             /\ pc = "join"
             /\ pc' \in {"idle", "alert"}
             /\ Concat(dispatched') = snapshot'
             /\ \A d \in Channels : co'[d].pc = "none"
             /\ \A d \in Range(snapshot') : outcome'[d] \in Terminal
             /\ stats'.messages_processed = stats.messages_processed + 1]_vars

\* the second run has completed after a restart: the counters hold both runs
C15_Witness ==
    /\ ended = "completed"
    /\ clock = 2
    /\ stats.messages_processed = 2
    /\ stats.total_forwards = 4
    /\ stats.successful_forwards = 3
    /\ stats.failed_forwards = 1
    /\ stats.restarts = 1

\* C16: from its first dispatch to its return a run works on the list of
\* active channels that the table held when the run began: the global list,
\* the loop bound and every group dispatched come from it, whatever posts
\* and commands arrive in the meantime (they wait in the queue until the run
\* has returned); the completed run has dispatched exactly that list, its
\* successes and failures add up to its length, the alert is decided on its
\* length and total_forwards grows by its length.
C16_RunUsesItsSnapshot ==
    /\ [](pc # "idle" =>
            /\ snapshot = load_channels_from_db(dbBefore)
            /\ TARGET_CHANNELS = snapshot
            /\ load_channels_from_db(db) = snapshot
            /\ rng.stop = Len(snapshot)
            /\ Len(Concat(dispatched)) <= Len(snapshot)
            /\ Concat(dispatched) = SubSeq(snapshot, 1, Len(Concat(dispatched))))
    /\ [](ended = "completed" =>
            /\ Concat(dispatched) = snapshot
            /\ successful + failed = Len(snapshot)
            /\ alerts = 1 <=> 10 * failed > 3 * Len(snapshot))
    /\ [][RunCounters(stats') # RunCounters(stats) =>
            stats'.total_forwards = stats.total_forwards + Len(snapshot)]_vars

\* the second batch of a run over channels 1 and 2 is in flight while a
\* /removechannel of channel 2, fetched during the run, waits in the queue
C16_Witness ==
    /\ pc = "join"
    /\ snapshot = <<1, 2>>
    /\ dispatched = << <<1>>, <<2>> >>
    /\ co[2].pc = "send"
    /\ update_queue # <<>>
    /\ Head(update_queue).kind = "removechannel"
    /\ Head(update_queue).arg = 2
    /\ Head(update_queue).during

\* C17: copier tasks exist only for the batch of the run in flight, and the
\* handler of a further update (forward_message for a second post included)
\* is called only when no handler is running and no copier task is left: a
\* run that dispatched before it has dispatched all its channels, has their
\* outcomes and has written the stats.
C17_OneRunAtATime ==
    /\ [](\A d \in Channels :
            co[d].pc # "none" => (pc = "join" /\ d \in Range(batch)))
    /\ [][clock' # clock =>
            /\ pc = "idle"
            /\ \A d \in Channels : co[d].pc = "none"
            /\ dispatched # <<>> =>
                  /\ ended = "completed"
                  /\ Concat(dispatched) = snapshot
                  /\ \A d \in Range(snapshot) : outcome[d] \in Terminal
                  /\ stats.last_forward_time = clock]_vars

\* the first run is in flight, one copy done, while a second post that was
\* fetched during the run waits in the queue
C17_Witness ==
    /\ pc = "join"
    /\ clock = 1
    /\ \E d \in Range(batch) : co[d].pc = "done"
    /\ update_queue # <<>>
    /\ Head(update_queue).kind = "post"
    /\ Head(update_queue).during

\* C18: BATCH_SIZE is between 1 and 50 in every state, from the value read
\* from the environment at start-up through every setbatch command.
C18_BatchSizeInRange ==
    BATCH_SIZE \in 1..50

\* C19: when every send returns or raises and every sleep ends, a run that
\* has dispatched a batch reaches its return, whatever its copies meet: by
\* then every group has been dispatched and joined, every copier has ended
\* with an outcome after at most 5 sends and is gone, and the stats have
\* been written.
C19_RunTerminates ==
    (pc # "idle") ~>
        /\ pc = "idle"
        /\ ended = "completed"
        /\ Concat(dispatched) = snapshot
        /\ \A d \in Range(snapshot) : outcome[d] \in Terminal
        /\ \A d \in Channels : co[d].pc = "none"
        /\ stats.messages_processed = 1
        /\ stats.total_forwards = Len(snapshot)

\* a run of two batches has completed although one copy failed and the
\* other raised
C19_Witness ==
    /\ ended = "completed"
    /\ stats.messages_processed = 1
    /\ Len(dispatched) = 2
    /\ \E d \in Range(snapshot) : outcome[d] = "raised"
    /\ \E d \in Range(snapshot) : outcome[d] = "False"

\* the copier of d makes a send in this step
SendStep(d) == co[d].pc = "send" /\ co'[d] # co[d]

\* the sleep of the copier of d ends in this step
SleepEnds(d) == co[d].pc = "sleep" /\ co'[d] # co[d]

TransientError(sig) ==
    sig.class = "TelegramError" /\ sig.text \in TransientTexts

\* C20 as stated: a timeout is followed by a sleep of 2 seconds and another
\* send; a transport error outside the permanent vocabulary by a sleep of
\* 1 second and another send, unless the attempt was the last, which sleeps
\* for no transport error.
C20_TimeoutAlwaysResends ==
    [][\A d \in Channels :
          /\ (SendStep(d) /\ co'[d].sig.class = "TimedOut") =>
                co'[d].pc = "sleep" /\ co'[d].sleepFor = 2
          /\ (SleepEnds(d) /\ co[d].sig.class = "TimedOut") =>
                co'[d].pc = "send"
          /\ (SendStep(d) /\ TransientError(co'[d].sig)) =>
                co'[d].pc = "sleep" /\ co'[d].sleepFor = 1
          /\ (SleepEnds(d) /\ TransientError(co[d].sig)) =>
                co'[d].pc = "send"
          /\ (SendStep(d) /\ co[d].attempt = Retries - 1
                /\ co'[d].pc = "sleep") =>
                co'[d].sig.class # "TelegramError"]_vars

\* C20 as amended: a timeout is followed by a sleep of 2 seconds on every
\* attempt; when that sleep ends the copier sends again if fewer than 5
\* sends were made and returns False after the 5th. A transport error
\* outside the permanent vocabulary on one of the first four attempts is
\* followed by a sleep of 1 second and the next send; on the 5th attempt no
\* transport error leads to a sleep, and the copier that ends without one
\* ends with False after its 5 sends.
C20_RetryWaits ==
    [][\A d \in Channels :
          /\ (SendStep(d) /\ co'[d].sig.class = "TimedOut") =>
                /\ co'[d].pc = "sleep"
                /\ co'[d].sleepFor = 2
                /\ co'[d].sends = co[d].sends + 1
          /\ (SleepEnds(d) /\ co[d].sig.class = "TimedOut") =>
                IF co[d].sends < 5
                THEN co'[d].pc = "send" /\ co'[d].attempt = co[d].attempt + 1
                ELSE co'[d].pc = "done" /\ co'[d].result = "False"
          /\ (SendStep(d) /\ TransientError(co'[d].sig)) =>
                /\ co[d].attempt < 4
                /\ co'[d].pc = "sleep"
                /\ co'[d].sleepFor = 1
                /\ co'[d].sends = co[d].sends + 1
          /\ (SleepEnds(d) /\ TransientError(co[d].sig)) =>
                co'[d].pc = "send" /\ co'[d].attempt = co[d].attempt + 1
          /\ (SendStep(d) /\ co[d].attempt = 4 /\ co'[d].pc = "sleep") =>
                co'[d].sig.class # "TelegramError"
          /\ (SendStep(d) /\ co'[d].pc = "done" /\ co'[d].sig = NoSignal
                /\ co'[d].sends > co[d].sends) =>
                /\ co[d].attempt = 4
                /\ co'[d].sends = 5
                /\ co'[d].result = "False"
                /\ co'[d].sleepFor = 0]_vars

\* the fifth send timed out and the copier is in its sleep of 2 seconds,
\* with no attempt left to follow it
C20_Witness ==
    /\ co[1].pc = "sleep"
    /\ co[1].sig = TimedOut
    /\ co[1].attempt = 4
    /\ co[1].sends = 5
    /\ co[1].sleepFor = 2

\* C21: a copier whose send returned ends with True (Delivered, counted by
\* the gather as a success), also when update_channel_stats raised after
\* the send.
C21_SentIsDelivered ==
    \A d \in Channels :
        co[d].sig.class = "ok" =>
            co[d].pc = "done" /\ co[d].result = "True"

\* C22: for a post without any recognized content field the first step of a
\* copier is its last: it returns False on its first iteration, no send was
\* invoked, no sleep requested and the table is untouched; such a copier is
\* never in a sleep.
C22_UnsupportedFailsUnsent ==
    /\ [](\A d \in Channels :
            (message.post /\ message.fields \cap Fields = {}) =>
                co[d].pc # "sleep" /\ co[d].sends = 0)
    /\ [][\A d \in Channels :
            (message.post /\ message.fields \cap Fields = {}
               /\ co[d].pc = "send" /\ co'[d] # co[d]) =>
                /\ co'[d].pc = "done"
                /\ co'[d].result = "False"
                /\ co'[d].attempt = 0
                /\ co'[d].sends = 0
                /\ co'[d].sleepFor = 0
                /\ db' = db]_vars

\* the copier of a post without content field has returned False unsent
C22_Witness ==
    /\ message.post
    /\ message.fields = {}
    /\ co[1].pc = "done"
    /\ co[1].result = "False"
    /\ co[1].attempt = 0
    /\ co[1].sends = 0
    /\ db = dbBefore

ClaimedPriority ==
    <<"text", "photo", "video", "document", "audio", "voice", "video_note",
      "sticker", "animation", "poll", "location", "contact">>

\* the populated field of m that comes first in the claimed order
TopField(m) ==
    ClaimedPriority[CHOOSE k \in DOMAIN ClaimedPriority :
                       /\ ClaimedPriority[k] \in m.fields
                       /\ \A j \in 1..(k - 1) : ClaimedPriority[j] \notin m.fields]

\* C23: for a post with more than one content field every attempt of a
\* copier invokes one send operation, that of the populated field that comes
\* first in the order text, photo, video, document, audio, voice, video
\* note, sticker, animation, poll, location, contact: over all its attempts
\* the copier has invoked that operation and no other.
C23_FirstMatchPriority ==
    /\ [](\A d \in Channels :
            (message.post /\ Cardinality(message.fields) >= 2) =>
                /\ co[d].ops \subseteq {TopField(message)}
                /\ co[d].sends > 0 => co[d].ops = {TopField(message)})
    /\ [][\A d \in Channels :
            (co[d].pc = "send" /\ co'[d] # co[d]) =>
                co'[d].sends = co[d].sends + 1]_vars

\* a post with a document and a photo: the third attempt, like the two
\* before it, has sent the photo
C23_Witness ==
    /\ message.fields = {"document", "photo"}
    /\ co[1].sends = 3
    /\ co[1].attempt = 2
    /\ co[1].ops = {"photo"}

\* C24: whenever no run is in flight total_forwards is the sum of
\* successful_forwards and failed_forwards; the step in which a run over
\* n >= 1 channels writes the stats raises total_forwards by n and
\* messages_processed by 1, and a run without channels raises neither.
C24_TotalsAddUp ==
    /\ [](pc = "idle" =>
            stats.total_forwards =
                stats.successful_forwards + stats.failed_forwards)
    /\ [][/\ RunCounters(stats') # RunCounters(stats) =>
                /\ Len(snapshot') >= 1
                /\ stats'.total_forwards = stats.total_forwards + Len(snapshot')
                /\ stats'.messages_processed = stats.messages_processed + 1
          /\ (clock' = clock + 1 /\ ended' = "no_channels") =>
                RunCounters(stats') = RunCounters(stats)]_vars

\* C25: of the sends a copier makes to its channel at most one returns; the
\* copier whose send returned is done, recorded or not, and takes no further
\* step; and a channel that has its outcome gets no second copier in the
\* same run.
C25_AtMostOneDelivery ==
    /\ [](\A d \in Channels :
            /\ co[d].oks <= 1
            /\ co[d].oks = 1 => (co[d].pc = "done" /\ co[d].sig.class = "ok"))
    /\ [][\A d \in Channels :
            /\ co[d].oks = 1 => co'[d] \in {co[d], NoTask}
            /\ (outcome[d] # None /\ clock' = clock) => co'[d].pc = "none"]_vars

\* the send to channel 1 returned, update_channel_stats raised, and the
\* copier is done after that one send
C25_Witness ==
    /\ co[1].pc = "done"
    /\ co[1].sig = SentDbError
    /\ co[1].oks = 1
    /\ co[1].sends = 1
    /\ co[1].result = "False"
    /\ db = dbBefore

\* C26: BATCH_SIZE does not change from the first dispatch of a run to its
\* return, whatever setbatch commands arrive in the meantime (they wait in
\* the queue): the step of the loop is the batch size, the k-th group is the
\* k-th slice of that size of the run's list, and the completed run has
\* dispatched every channel of the list once, none skipped, none twice.
C26_BatchSizeFixedInRun ==
    /\ [](pc # "idle" =>
            /\ rng.step = BATCH_SIZE
            /\ \A k \in DOMAIN dispatched :
                  dispatched[k] =
                      Slice(snapshot, (k - 1) * BATCH_SIZE, k * BATCH_SIZE))
    /\ [](ended = "completed" =>
            /\ Concat(dispatched) = snapshot
            /\ Cardinality(Range(Concat(dispatched))) = Len(Concat(dispatched)))
    /\ [][pc # "idle" => BATCH_SIZE' = BATCH_SIZE]_vars

\* a run in batches of one sleeps between its two batches while a
\* /setbatch 2 fetched during the run waits in the queue
C26_Witness ==
    /\ pc = "pace"
    /\ BATCH_SIZE = 1
    /\ snapshot = <<1, 2>>
    /\ dispatched = << <<1>> >>
    /\ update_queue # <<>>
    /\ Head(update_queue).kind = "setbatch"
    /\ Head(update_queue).arg = 2
    /\ Head(update_queue).during

\* C27: a copier is never in a sleep after the 5th send of its budget:
\* whatever that send met, the copier returns without a further wait.
C27_NoSleepAfterLastAttempt ==
    \A d \in Channels :
        co[d].pc = "sleep" => (co[d].sends < 5 /\ co[d].attempt < 4)
====
